---- MODULE Spec2Model ----
(***************************************************************************)
(* A model of JiraStatusAnalyzer (src/own.py): the replay of a ticket's    *)
(* changelog into per-status durations, the paginated fetch of tickets,    *)
(* the batch analysis and the aggregation by a grouping field.             *)
(*                                                                         *)
(* Time is counted in whole hours (the code divides seconds by 3600 and    *)
(* keeps floats; rounding of floats is not modelled).  A DurationMap is a  *)
(* function whose domain is the set of keys of the Python dict.            *)
(***************************************************************************)
EXTENDS Integers, Sequences, FiniteSets, TLC

VARIABLES
    \* analyze_single_issue
    issue,              \* the ticket jira.issue() returned: [created, histories]
    now,                \* what datetime.now(pytz.UTC) reads during the call
    status_changes,     \* the sorted list _get_status_changes returned
    status_durations,   \* the DurationMap _calculate_status_durations returned
    pc,                 \* "idle" | "start" | "done" | "raised"
    \* get_issues_by_jql and the remote it talks to
    matching,           \* how many tickets match the query; their keys are 1..matching
    max_results_per_page,
    total_issues,       \* count_response.total (NoTotal before the count query)
    all_issues,         \* keys of the issues accumulated
    start_at,
    data,               \* data['issues'] of the page being converted (keys)
    issues_page,        \* the list the comprehension of line 79 has built so far
    fpc,                \* "idle" | "count" | "search" | "refetch" | "returned"
    searches,           \* paginated search requests sent
    issue_gets,         \* per-issue fetches sent
    count_failed,       \* the count query raised
    failed_page,        \* number of the page whose fetch raised, 0 when none did
    served,             \* the raw pages the remote answered with, in order
    consistent,         \* the remote's answers so far all agree with `matching`
    \* analyze_multiple_issues and print_aggregated_results (run_analysis)
    issues,             \* the list get_issues_by_jql returned
    i,                  \* issues the analysis loop has been through
    results,            \* the results dict, as its entries in insertion order
    skipped,            \* keys of the issues whose processing raised
    apc,                \* "idle" | "analyze" | "group" | "report" | "printed" | "empty"
    j,                  \* entries of results the grouping loop has been through
    aggregated,         \* status -> [total_hours, count]
    category_stats,     \* category -> [total_hours, count, issues, status_totals]
    grand_total_hours,
    overall             \* the "Overall time spent in each status" lines printed

singleVars == <<issue, status_changes, status_durations, pc>>

fetchVars ==
    <<matching, max_results_per_page, total_issues, all_issues, start_at, data,
      issues_page, fpc, searches, issue_gets, count_failed, failed_page, served,
      consistent>>

batchVars ==
    <<issues, i, results, skipped, apc, j, aggregated, category_stats,
      grand_total_hours, overall>>

vars == <<now, singleVars, fetchVars, batchVars>>

----------------------------------------------------------------------------
(* Bounds of the model *)

\* longest changelog (number of histories) of a ticket
MaxHist == 3
\* latest hour a changelog entry is stamped with
MaxTime == 1
\* hours between a ticket's creation and a late analysis of it
AnalysisDelay == 10
\* most tickets a query matches
MaxTotal == 5
\* largest page size a caller asks for
MaxPageSize == 3
\* most tickets a batch analyzes
MaxIssues == 3

----------------------------------------------------------------------------
(* Values *)

\* a JSON null / a missing attribute (Python None)
NoValue == "<null>"

NewIssues == "New Issues"
Done == "Done"
InProgress == "In Progress"

\* EXPECTED_STATUSES
EXPECTED_STATUSES ==
    { "New", "New Issues", "Ready For Specification", "Product specification",
      "Refinement", "Ready to Plan", "Ready for Development",
      "Missing information", "In Progress", "Waiting for Code Review",
      "Code Review", "Ready for QA", "In Testing", "Testing Complete",
      "Passed", "Failed", "Dev Ready/Complete", "Done w/o dev", "Done",
      "On Hold" }

\* what item.toString of a status item can hold
ToStrings == {InProgress, Done, NoValue}

\* UTC offsets (hours) a timestamp string can carry in its %z part
Offsets == {0, 1}

\* a string that '%Y-%m-%dT%H:%M:%S.%f%z' does not match
Malformed == [local |-> -1, off |-> -1]

\* history.created strings: local wall-clock hour and UTC offset
WellFormedStamps ==
    {[local |-> l, off |-> o] : l \in 0..MaxTime, o \in Offsets}

Stamps == {s \in WellFormedStamps : s.local >= s.off}

\* changelog items: a status change, or a change of another field
StatusItems ==
    {[field |-> "status", fromString |-> NoValue, toString |-> t] : t \in ToStrings}

OtherItem == [field |-> "assignee", fromString |-> NoValue, toString |-> NoValue]

Items == StatusItems \cup {OtherItem}

Histories ==
    {[created |-> c, items |-> <<it>>] : c \in Stamps \cup {Malformed}, it \in Items}

SeqsUpTo(S, n) == UNION {[1..k -> S] : k \in 0..n}

Changelogs == SeqsUpTo(Histories, MaxHist)

\* the instants "now" is read at: after every stamped event
NowTimes == {MaxTime + 1, AnalysisDelay}

----------------------------------------------------------------------------
(* _get_status_changes *)

\* datetime.strptime(s, '%Y-%m-%dT%H:%M:%S.%f%z'): an aware datetime, which
\* compares and subtracts as the UTC instant local - offset
StrpTime(s) == s.local - s.off

Parses(s) == s \in WellFormedStamps

\* the (history, item) pairs the two nested loops visit, in order
RECURSIVE FlattenItems(_, _)
FlattenItems(histories, h) ==
    IF h > Len(histories) THEN <<>>
    ELSE [k \in 1..Len(histories[h].items) |->
             [created |-> histories[h].created, item |-> histories[h].items[k]]]
         \o FlattenItems(histories, h + 1)

\* a slip: the test of item.field is left out
IsStatusItemAnyField(item) == TRUE

IsStatusItem(item) == item.field = "status"

StatusEntries(histories) ==
    SelectSeq(FlattenItems(histories, 1), LAMBDA e : IsStatusItem(e.item))

OrNone(s) == IF s = NoValue \/ s = "" THEN "None" ELSE s

ToChange(e) ==
    [from_status |-> OrNone(e.item.fromString),
     to_status |-> OrNone(e.item.toString),
     timestamp |-> StrpTime(e.created)]

\* x goes before the first element whose key is greater: equal keys keep
\* their order
RECURSIVE InsertByTimestamp(_, _)
InsertByTimestamp(sorted, x) ==
    IF sorted = <<>> THEN <<x>>
    ELSE IF Head(sorted).timestamp > x.timestamp
         THEN <<x>> \o sorted
         ELSE <<Head(sorted)>> \o InsertByTimestamp(Tail(sorted), x)

\* a slip: the list is returned as collected, not sorted
SortedByTimestampForgotten(s) == s

\* sorted(status_changes, key=lambda x: x['timestamp']) (stable)
RECURSIVE SortedByTimestamp(_)
SortedByTimestamp(s) ==
    IF s = <<>> THEN <<>>
    ELSE InsertByTimestamp(SortedByTimestamp(SubSeq(s, 1, Len(s) - 1)), s[Len(s)])

\* strptime raises ValueError on the created string of some status item
GetStatusChangesRaises(iss) ==
    LET entries == StatusEntries(iss.histories)
    IN  \E k \in 1..Len(entries) : ~Parses(entries[k].created)

\* the list returned when nothing raises
GetStatusChanges(iss) ==
    LET entries == StatusEntries(iss.histories)
    IN  SortedByTimestamp([k \in 1..Len(entries) |-> ToChange(entries[k])])

----------------------------------------------------------------------------
(* _calculate_status_durations *)

EmptyMap == [s \in {} |-> 0]

\* status_durations[status] += duration on a defaultdict(float)
Accrue(m, status, duration) ==
    [s \in DOMAIN m \cup {status} |->
        (IF s \in DOMAIN m THEN m[s] ELSE 0) + (IF s = status THEN duration ELSE 0)]

\* the for loop: state after the changes from index k on
RECURSIVE ReplayFrom(_, _, _, _, _)
ReplayFrom(changes, k, current_status, current_time, m) ==
    IF k > Len(changes)
    THEN [current_status |-> current_status, current_time |-> current_time, map |-> m]
    ELSE ReplayFrom(changes, k + 1, changes[k].to_status, changes[k].timestamp,
                    Accrue(m, current_status, changes[k].timestamp - current_time))

TerminalStatus == Done

\* a slip: the open-status tail is accrued whatever the last status is
CalculateStatusDurationsAlwaysOpen(changes, t) ==
    IF changes = <<>> THEN EmptyMap
    ELSE LET end == ReplayFrom(changes, 1, NewIssues, changes[1].timestamp, EmptyMap)
         IN  Accrue(end.map, end.current_status, t - end.current_time)

CalculateStatusDurations(changes, t) ==
    IF changes = <<>> THEN EmptyMap
    ELSE LET end == ReplayFrom(changes, 1, NewIssues, changes[1].timestamp, EmptyMap)
         IN  IF end.current_status # TerminalStatus
             THEN Accrue(end.map, end.current_status, t - end.current_time)
             ELSE end.map

----------------------------------------------------------------------------
(* analyze_single_issue *)

\* total_issues before line 54 assigns it
NoTotal == -1

FetchIdle ==
    /\ matching = 0
    /\ max_results_per_page = 1
    /\ total_issues = NoTotal
    /\ all_issues = <<>>
    /\ start_at = 0
    /\ data = <<>>
    /\ issues_page = <<>>
    /\ fpc = "idle"
    /\ searches = 0
    /\ issue_gets = 0
    /\ count_failed = FALSE
    /\ failed_page = 0
    /\ served = <<>>
    /\ consistent = TRUE

BatchIdle ==
    /\ issues = <<>>
    /\ i = 0
    /\ results = <<>>
    /\ skipped = {}
    /\ apc = "idle"
    /\ j = 0
    /\ aggregated = EmptyMap
    /\ category_stats = EmptyMap
    /\ grand_total_hours = 0
    /\ overall = EmptyMap

InitSingle ==
    /\ FetchIdle
    /\ BatchIdle
    /\ issue \in [created : {0}, histories : Changelogs]
    /\ now \in NowTimes
    /\ status_changes = <<>>
    /\ status_durations = EmptyMap
    /\ pc = "start"

AnalyzeSingleIssue ==
    /\ pc = "start"
    /\ IF GetStatusChangesRaises(issue)
       THEN /\ pc' = "raised"
            /\ UNCHANGED <<status_changes, status_durations>>
       ELSE /\ status_changes' = GetStatusChanges(issue)
            /\ status_durations' = CalculateStatusDurations(status_changes', now)
            /\ pc' = "done"
    /\ UNCHANGED <<issue, now, fetchVars, batchVars>>

NextSingle == AnalyzeSingleIssue

SpecSingle == InitSingle /\ [][NextSingle]_vars

----------------------------------------------------------------------------
(* get_issues_by_jql *)

\* the search loop gives up in the model after this many page requests (the
\* code has no such limit); a remote that answers consistently needs at most
\* max(1, matching) of them
MaxSearches == MaxTotal + 1

SingleIdle ==
    /\ issue = [created |-> 0, histories |-> <<>>]
    /\ status_changes = <<>>
    /\ status_durations = EmptyMap
    /\ pc = "idle"

InitFetch ==
    /\ SingleIdle
    /\ BatchIdle
    /\ now = 0
    /\ matching \in 0..MaxTotal
    /\ max_results_per_page \in 1..MaxPageSize
    /\ total_issues = NoTotal
    /\ all_issues = <<>>
    /\ start_at = 0
    /\ data = <<>>
    /\ issues_page = <<>>
    /\ fpc = "count"
    /\ searches = 0
    /\ issue_gets = 0
    /\ count_failed = FALSE
    /\ failed_page = 0
    /\ served = <<>>
    /\ consistent = TRUE

\* the slice [offset, offset + limit) of the result set, as keys
ExactPage(offset, limit) ==
    LET last == IF offset + limit < matching THEN offset + limit ELSE matching
    IN  [k \in 1..(IF last > offset THEN last - offset ELSE 0) |-> offset + k]

\* what the remote may answer to a search: the exact page, or fewer of its
\* records (a server-side cap on maxResults, a result set that shrank)
PossiblePages(offset, limit) ==
    LET exact == ExactPage(offset, limit)
    IN  {SubSeq(exact, 1, n) : n \in 0..Len(exact)}

\* enhanced_search_issues(maxResults=0) answers: lines 49-55
CountQueryOk ==
    /\ fpc = "count"
    /\ \E total \in {matching, matching + 1} :
         /\ total_issues' = total
         /\ consistent' = (total = matching)
    /\ fpc' = "search"
    /\ UNCHANGED <<matching, max_results_per_page, all_issues, start_at, data,
                   issues_page, searches, issue_gets, count_failed, failed_page,
                   served>>
    /\ UNCHANGED <<now, singleVars, batchVars>>

\* a slip: the handler of the count query does not return
AfterCountFailureFallsThrough == "search"

\* where control goes after the handler of lines 56-61: return all_issues
AfterCountFailure == "returned"

\* enhanced_search_issues raises: lines 56-61
CountQueryFails ==
    /\ fpc = "count"
    /\ count_failed' = TRUE
    /\ fpc' = AfterCountFailure
    /\ UNCHANGED <<matching, max_results_per_page, total_issues, all_issues,
                   start_at, data, issues_page, searches, issue_gets, failed_page,
                   served, consistent>>
    /\ UNCHANGED <<now, singleVars, batchVars>>

\* the GET of /rest/api/3/search answers: lines 66-76
SearchPageOk ==
    /\ fpc = "search"
    /\ searches < MaxSearches
    /\ searches' = searches + 1
    /\ \E page \in PossiblePages(start_at, max_results_per_page) :
         /\ data' = page
         /\ served' = Append(served, page)
         /\ consistent' = (consistent /\ page = ExactPage(start_at, max_results_per_page))
    /\ issues_page' = <<>>
    /\ fpc' = "refetch"
    /\ UNCHANGED <<matching, max_results_per_page, total_issues, all_issues,
                   start_at, issue_gets, count_failed, failed_page>>
    /\ UNCHANGED <<now, singleVars, batchVars>>

\* the GET or raise_for_status or json() raises: lines 74-76, 92-97
SearchPageFails ==
    /\ fpc = "search"
    /\ searches < MaxSearches
    /\ searches' = searches + 1
    /\ failed_page' = searches + 1
    /\ fpc' = "returned"
    /\ UNCHANGED <<matching, max_results_per_page, total_issues, all_issues,
                   start_at, data, issues_page, issue_gets, count_failed, served,
                   consistent>>
    /\ UNCHANGED <<now, singleVars, batchVars>>

\* a slip: each re-fetched issue is appended to all_issues at once
RefetchIntoResults(all, page, key) == [all |-> Append(all, key), page |-> page]

\* one more element of the comprehension of line 79: the re-fetched issue
\* joins the page under construction, all_issues is not touched
RefetchInto(all, page, key) == [all |-> all, page |-> Append(page, key)]

\* self.jira.issue(raw['key'], expand='changelog') answers: line 79
RefetchIssueOk ==
    /\ fpc = "refetch"
    /\ Len(issues_page) < Len(data)
    /\ issue_gets' = issue_gets + 1
    /\ LET r == RefetchInto(all_issues, issues_page, data[Len(issues_page) + 1])
       IN  /\ all_issues' = r.all
           /\ issues_page' = r.page
    /\ UNCHANGED <<matching, max_results_per_page, total_issues, start_at, data, fpc,
                   searches, count_failed, failed_page, served, consistent>>
    /\ UNCHANGED <<now, singleVars, batchVars>>

\* self.jira.issue(...) raises inside the comprehension: lines 79, 92-97
RefetchIssueFails ==
    /\ fpc = "refetch"
    /\ Len(issues_page) < Len(data)
    /\ issue_gets' = issue_gets + 1
    /\ failed_page' = searches
    /\ fpc' = "returned"
    /\ UNCHANGED <<matching, max_results_per_page, total_issues, all_issues,
                   start_at, data, issues_page, searches, count_failed, served,
                   consistent>>
    /\ UNCHANGED <<now, singleVars, batchVars>>

\* a slip: the offset moves by one record, not by one page
NextStartAtByOne(offset, limit) == offset + 1

\* start_at += max_results_per_page
NextStartAt(offset, limit) == offset + limit

\* the page is complete: lines 82-90
ExtendAndTest ==
    /\ fpc = "refetch"
    /\ Len(issues_page) = Len(data)
    /\ all_issues' = all_issues \o issues_page
    /\ IF Len(all_issues') >= total_issues
       THEN /\ fpc' = "returned"
            /\ UNCHANGED start_at
       ELSE /\ fpc' = "search"
            /\ start_at' = NextStartAt(start_at, max_results_per_page)
    /\ UNCHANGED <<matching, max_results_per_page, total_issues, data, issues_page,
                   searches, issue_gets, count_failed, failed_page, served,
                   consistent>>
    /\ UNCHANGED <<now, singleVars, batchVars>>

NextFetch ==
    \/ CountQueryOk
    \/ CountQueryFails
    \/ SearchPageOk
    \/ SearchPageFails
    \/ RefetchIssueOk
    \/ RefetchIssueFails
    \/ ExtendAndTest

SpecFetch == InitFetch /\ [][NextFetch]_vars

\* the call runs in one thread and every request comes back (with an answer
\* or an exception), so a call that can take a step takes one
SpecFetchFair == SpecFetch /\ WF_vars(NextFetch)

----------------------------------------------------------------------------
(* analyze_multiple_issues *)

StatusHistory(stamp, to) ==
    [created |-> stamp,
     items |-> <<[field |-> "status", fromString |-> NoValue, toString |-> to]>>]

\* the changelogs of the tickets of a batch
BatchChangelogs ==
    { <<>>,
      \* moved once, to a status of no name, and still there
      << StatusHistory([local |-> 0, off |-> 0], NoValue) >>,
      \* started and finished, the changelog listing the newest change first
      << StatusHistory([local |-> 1, off |-> 0], Done),
         StatusHistory([local |-> 1, off |-> 1], InProgress) >>,
      \* started and sent back to the initial status
      << StatusHistory([local |-> 0, off |-> 0], InProgress),
         StatusHistory([local |-> 1, off |-> 0], NewIssues) >>,
      \* a change whose timestamp does not parse
      << StatusHistory(Malformed, Done) >> }

\* what the grouping custom field of a ticket holds (NoValue: null or absent)
GroupingValues == {"High", "Low", NoValue}

InitBatch ==
    /\ SingleIdle
    /\ FetchIdle
    /\ now = AnalysisDelay
    /\ \E n \in 0..MaxIssues :
         \E logs \in [1..n -> BatchChangelogs], values \in [1..n -> GroupingValues] :
            issues = [k \in 1..n |->
                        [key |-> k, created |-> 0, histories |-> logs[k],
                         grouping |-> values[k]]]
    /\ i = 0
    /\ results = <<>>
    /\ skipped = {}
    /\ apc = "analyze"
    /\ j = 0
    /\ aggregated = EmptyMap
    /\ category_stats = EmptyMap
    /\ grand_total_hours = 0
    /\ overall = EmptyMap

\* results[key] = entry on a dict that keeps insertion order
DictSet(d, key, entry) ==
    IF \E k \in 1..Len(d) : d[k].key = key
    THEN [k \in 1..Len(d) |-> IF d[k].key = key THEN entry ELSE d[k]]
    ELSE Append(d, entry)

\* the body of the try of lines 161-175 runs to its end
AnalyzeIssueOk ==
    /\ apc = "analyze"
    /\ i < Len(issues)
    /\ ~GetStatusChangesRaises(issues[i + 1])
    /\ LET iss == issues[i + 1]
           durations == CalculateStatusDurations(GetStatusChanges(iss), now)
       IN  results' = DictSet(results, iss.key,
                              [key |-> iss.key, durations |-> durations,
                               grouping_field_value |-> iss.grouping])
    /\ i' = i + 1
    /\ UNCHANGED <<issues, skipped, apc, j, aggregated, category_stats,
                   grand_total_hours, overall>>
    /\ UNCHANGED <<now, singleVars, fetchVars>>

\* a slip: the handler leaves the loop
NextIndexAfterFailureBreaks(index, n) == n

\* the handler of lines 176-178: continue with the next issue
NextIndexAfterFailure(index, n) == index + 1

\* the body of the try raises: lines 162, 176-178
AnalyzeIssueRaises ==
    /\ apc = "analyze"
    /\ i < Len(issues)
    /\ GetStatusChangesRaises(issues[i + 1])
    /\ skipped' = skipped \cup {issues[i + 1].key}
    /\ i' = NextIndexAfterFailure(i, Len(issues))
    /\ UNCHANGED <<issues, results, apc, j, aggregated, category_stats,
                   grand_total_hours, overall>>
    /\ UNCHANGED <<now, singleVars, fetchVars>>

\* analyze_multiple_issues returns and run_analysis hands the results to
\* print_aggregated_results: lines 180-181, 371, 244-261
AnalysisReturns ==
    /\ apc = "analyze"
    /\ i >= Len(issues)
    /\ apc' = IF results = <<>> THEN "empty" ELSE "group"
    /\ UNCHANGED <<issues, i, results, skipped, j, aggregated, category_stats,
                   grand_total_hours, overall>>
    /\ UNCHANGED <<now, singleVars, fetchVars>>

----------------------------------------------------------------------------
(* print_aggregated_results *)

RECURSIVE SumOver(_, _)
SumOver(m, keys) ==
    IF keys = {} THEN 0
    ELSE LET k == CHOOSE x \in keys : TRUE IN m[k] + SumOver(m, keys \ {k})

\* the sum of all values of a DurationMap
SumOfMap(m) == SumOver(m, DOMAIN m)

\* a slip: only the statuses of EXPECTED_STATUSES are added up
IssueTotalExpectedOnly(durations) ==
    SumOver(durations, DOMAIN durations \cap EXPECTED_STATUSES)

\* issue_total once the loop of lines 268-272 has ended
IssueTotal(durations) == SumOfMap(durations)

\* Python's truth value of a grouping value
Truthy(v) == v # NoValue /\ v # ""

\* a slip: the value is used as it is
CategoryOfAsIs(value) == value

\* issue_data['grouping_field_value'] or 'Not Set'
CategoryOf(value) == IF Truthy(value) THEN value ELSE "Not Set"

\* aggregated after lines 269-270 ran for every status of the issue
AddToAggregated(agg, durations) ==
    [s \in DOMAIN agg \cup DOMAIN durations |->
        LET old == IF s \in DOMAIN agg THEN agg[s] ELSE [total_hours |-> 0, count |-> 0]
        IN  IF s \in DOMAIN durations
            THEN [total_hours |-> old.total_hours + durations[s],
                  count |-> old.count + 1]
            ELSE old]

\* status_totals of a category after line 271 ran for every status of the issue
AddToStatusTotals(totals, durations) ==
    [s \in DOMAIN totals \cup DOMAIN durations |->
        (IF s \in DOMAIN totals THEN totals[s] ELSE 0)
        + (IF s \in DOMAIN durations THEN durations[s] ELSE 0)]

NewCategory == [total_hours |-> 0, count |-> 0, issues |-> <<>>, status_totals |-> EmptyMap]

\* category_stats after lines 271-277 ran for the issue
AddToCategory(stats, category, key, durations) ==
    [c \in DOMAIN stats \cup {category} |->
        IF c = category
        THEN LET old == IF c \in DOMAIN stats THEN stats[c] ELSE NewCategory
             IN  [total_hours |-> old.total_hours + IssueTotal(durations),
                  count |-> old.count + 1,
                  issues |-> Append(old.issues, key),
                  status_totals |-> AddToStatusTotals(old.status_totals, durations)]
        ELSE stats[c]]

\* one round of the loop of lines 263-278
GroupIssue ==
    /\ apc = "group"
    /\ j < Len(results)
    /\ LET issue_data == results[j + 1]
           category == CategoryOf(issue_data.grouping_field_value)
       IN  /\ aggregated' = AddToAggregated(aggregated, issue_data.durations)
           /\ category_stats' =
                AddToCategory(category_stats, category, issue_data.key,
                              issue_data.durations)
           /\ grand_total_hours' = grand_total_hours + IssueTotal(issue_data.durations)
    /\ j' = j + 1
    /\ UNCHANGED <<issues, i, results, skipped, apc, overall>>
    /\ UNCHANGED <<now, singleVars, fetchVars>>

\* total / count, kept as a fraction
Ratio(total, count) == [num |-> total, den |-> count]

\* the lines of "Overall time spent in each status": lines 317-324
OverallReport(agg) ==
    [s \in EXPECTED_STATUSES \cap DOMAIN agg |->
        [total_hours |-> agg[s].total_hours,
         avg_hours |-> Ratio(agg[s].total_hours, agg[s].count)]]

\* the loop has ended and the report is printed: lines 280-330
PrintReport ==
    /\ apc = "group"
    /\ j = Len(results)
    /\ overall' = OverallReport(aggregated)
    /\ apc' = "printed"
    /\ UNCHANGED <<issues, i, results, skipped, j, aggregated, category_stats,
                   grand_total_hours>>
    /\ UNCHANGED <<now, singleVars, fetchVars>>

NextBatch ==
    \/ AnalyzeIssueOk
    \/ AnalyzeIssueRaises
    \/ AnalysisReturns
    \/ GroupIssue
    \/ PrintReport

SpecBatch == InitBatch /\ [][NextBatch]_vars

----------------------------------------------------------------------------
(* Helpers of the properties *)

\* the status-change events of a ticket in the order the changelog lists them
RawChanges(iss) ==
    LET entries == StatusEntries(iss.histories)
    IN  [k \in 1..Len(entries) |-> ToChange(entries[k])]

Arrangements(n) == {f \in [1..n -> 1..n] : \A a, b \in 1..n : f[a] = f[b] => a = b}

Chronological(s) == \A a, b \in 1..Len(s) : a < b => s[a].timestamp <= s[b].timestamp

\* s permuted by f keeps the changelog order of events sharing a timestamp
KeepsTies(s, f) ==
    \A a, b \in 1..Len(s) :
        (a < b /\ s[f[a]].timestamp = s[f[b]].timestamp) => f[a] < f[b]

----------------------------------------------------------------------------
(* Properties of the replay *)

\* C1: for a non-empty transition sequence sorted by timestamp, the values of
\* the DurationMap sum to (last timestamp - first timestamp) when the last
\* transition leads to "Done", and to (now - first timestamp) otherwise.
C1_SumIsElapsedTime ==
    (pc = "done" /\ status_changes # <<>>) =>
        LET first == status_changes[1]
            last == status_changes[Len(status_changes)]
        IN  /\ Chronological(status_changes)
            /\ SumOfMap(status_durations) =
                 IF last.to_status = "Done"
                 THEN last.timestamp - first.timestamp
                 ELSE now - first.timestamp

\* a replay of several transitions that ends in "Done" after some time
C1_Witness ==
    /\ pc = "done"
    /\ Len(status_changes) = 3
    /\ status_changes[3].to_status = "Done"
    /\ status_changes[2].to_status # "Done"
    /\ status_changes[3].timestamp > status_changes[1].timestamp
    /\ now > status_changes[3].timestamp

\* C2 as stated: whatever the order of the changelog, and also when events
\* share a timestamp, the DurationMap is the one of every chronological
\* arrangement of the same events.
C2_AnyChronologicalOrder ==
    pc = "done" =>
        LET raw == RawChanges(issue) IN
        \A f \in Arrangements(Len(raw)) :
            LET arranged == [k \in 1..Len(raw) |-> raw[f[k]]] IN
            Chronological(arranged) =>
                CalculateStatusDurations(arranged, now) = status_durations

\* C2 amended: whatever the order of the changelog, the DurationMap is the
\* one of the chronological arrangement of the same events in which events
\* sharing a timestamp keep their changelog order (so it is the one of the
\* only chronological arrangement when all timestamps differ).
C2_StableChronologicalOrder ==
    pc = "done" =>
        LET raw == RawChanges(issue) IN
        \A f \in Arrangements(Len(raw)) :
            LET arranged == [k \in 1..Len(raw) |-> raw[f[k]]] IN
            (Chronological(arranged) /\ KeepsTies(raw, f)) =>
                /\ status_changes = arranged
                /\ CalculateStatusDurations(arranged, now) = status_durations

\* a changelog listed out of chronological order, two of its events sharing
\* a timestamp and leading to different statuses
C2_Witness ==
    /\ pc = "done"
    /\ LET raw == RawChanges(issue) IN
       /\ Len(raw) = 3
       /\ ~Chronological(raw)
       /\ \E a, b \in 1..3 :
            /\ a < b
            /\ raw[a].timestamp = raw[b].timestamp
            /\ raw[a].to_status # raw[b].to_status
    /\ status_durations # EmptyMap

\* no item of the changelog is a change of the status field
HasNoTransitions(iss) ==
    \A h \in 1..Len(iss.histories) :
        \A k \in 1..Len(iss.histories[h].items) :
            iss.histories[h].items[k].field # "status"

\* C3 as stated: a ticket with no status transitions, created at t0 and
\* analyzed at t0 + 10h, yields {New Issues: 10}.
C3_UntouchedTicketInNewIssues ==
    (pc = "done" /\ HasNoTransitions(issue) /\ now = issue.created + AnalysisDelay) =>
        status_durations = [s \in {NewIssues} |-> AnalysisDelay]

\* C3 amended: a ticket with no status transitions, created at t0 and
\* analyzed at t0 + 10h, yields the empty DurationMap: no time is
\* attributed to any status, "New Issues" included.
C3_UntouchedTicketYieldsEmptyMap ==
    (pc = "done" /\ HasNoTransitions(issue) /\ now = issue.created + AnalysisDelay) =>
        status_durations = EmptyMap

\* a ticket whose changelog holds no status change, analyzed 10h after its
\* creation
C3_Witness ==
    /\ pc = "done"
    /\ HasNoTransitions(issue)
    /\ Len(issue.histories) > 0
    /\ now = issue.created + AnalysisDelay

----------------------------------------------------------------------------
(* Properties of the fetch *)

RECURSIVE Concat(_, _)
\* the first n pages of a list of pages, joined
Concat(pages, n) == IF n = 0 THEN <<>> ELSE Concat(pages, n - 1) \o pages[n]

Range(s) == {s[k] : k \in 1..Len(s)}

NoFailure == ~count_failed /\ failed_page = 0

\* C5: when the count query, every page fetch and every per-issue re-fetch
\* succeed and the remote serves consistent pages, the list returned holds
\* every matching ticket exactly once (in the order of the result set).
C5_CompleteResult ==
    (fpc = "returned" /\ NoFailure /\ consistent) =>
        all_issues = [k \in 1..matching |-> k]

\* a result set of several pages, the last one partial, fetched to the end
C5_Witness ==
    /\ fpc = "returned"
    /\ NoFailure
    /\ consistent
    /\ matching = MaxTotal
    /\ max_results_per_page = 2
    /\ searches = 3
    /\ Len(all_issues) = matching

\* C6: when the fetch of page k fails (the search request or a per-issue
\* re-fetch), pagination stops and the call returns exactly the tickets of
\* pages 1..k-1, none of page k.
C6_PartialResultOnPageFailure ==
    failed_page > 0 =>
        /\ fpc = "returned"
        /\ all_issues = Concat(served, failed_page - 1)
        /\ Len(served) >= failed_page => Range(served[failed_page]) \cap Range(all_issues) = {}
        /\ consistent =>
             all_issues = [k \in 1..((failed_page - 1) * max_results_per_page) |-> k]

\* page 2 of 3 fails in the re-fetch of its second ticket, after the first
\* one was re-fetched
C6_Witness ==
    /\ fpc = "returned"
    /\ failed_page = 2
    /\ matching = 5
    /\ max_results_per_page = 2
    /\ consistent
    /\ Len(issues_page) = 1
    /\ all_issues = <<1, 2>>

\* C7: when the count query fails, the call returns an empty list at once:
\* no paginated search and no per-issue fetch is sent.
C7_CountFailureAborts ==
    count_failed =>
        /\ fpc = "returned"
        /\ all_issues = <<>>
        /\ searches = 0
        /\ issue_gets = 0
        /\ total_issues = NoTotal

\* the count query failed on a query that matches tickets
C7_Witness ==
    /\ count_failed
    /\ fpc = "returned"
    /\ matching > 0

----------------------------------------------------------------------------
(* Properties of the batch analysis and of the aggregation *)

GroupingLoopEnded == apc = "printed" \/ (apc = "group" /\ j = Len(results))

RECURSIVE SumOfCounts(_, _)
SumOfCounts(stats, categories) ==
    IF categories = {} THEN 0
    ELSE LET c == CHOOSE x \in categories : TRUE
         IN  stats[c].count + SumOfCounts(stats, categories \ {c})

RECURSIVE SumOfBucketHours(_, _)
SumOfBucketHours(stats, categories) ==
    IF categories = {} THEN 0
    ELSE LET c == CHOOSE x \in categories : TRUE
         IN  stats[c].total_hours + SumOfBucketHours(stats, categories \ {c})

RECURSIVE SumOfTicketHours(_, _)
\* the hours of the first n entries of the results, every status counted
SumOfTicketHours(entries, n) ==
    IF n = 0 THEN 0
    ELSE SumOfTicketHours(entries, n - 1)
         + SumOver(entries[n].durations, DOMAIN entries[n].durations)

\* how often a key occurs in the issue list of a bucket
Occurrences(bucket, key) ==
    Cardinality({k \in 1..Len(bucket.issues) : bucket.issues[k] = key})

\* C4: after the grouping loop the issue counts of the buckets add up to
\* the number of tickets, and every ticket key is in the issue list of
\* exactly one bucket, once: the bucket of its grouping value, or "Not Set"
\* when the value is missing or null.
C4_BucketsPartitionTickets ==
    GroupingLoopEnded =>
        /\ SumOfCounts(category_stats, DOMAIN category_stats) = Len(results)
        /\ \A c \in DOMAIN category_stats :
              category_stats[c].count = Len(category_stats[c].issues)
        /\ \A k \in 1..Len(results) :
              LET value == results[k].grouping_field_value
                  home == IF value = NoValue THEN "Not Set" ELSE value
              IN  /\ home \in DOMAIN category_stats
                  /\ Occurrences(category_stats[home], results[k].key) = 1
                  /\ \A c \in DOMAIN category_stats \ {home} :
                        Occurrences(category_stats[c], results[k].key) = 0

\* three tickets grouped: two share a bucket, one has no grouping value
C4_Witness ==
    /\ apc = "printed"
    /\ Len(results) = 3
    /\ DOMAIN category_stats = {"High", "Not Set"}
    /\ category_stats["High"].count = 2
    /\ category_stats["Not Set"].issues = <<2>>

\* the entries of the results under a key
EntriesOf(key) == {k \in 1..Len(results) : results[k].key = key}

\* C8: a ticket whose processing fails does not abort the batch: it has no
\* entry in the results, and every other fetched ticket, before and after
\* it, is processed and has exactly one entry under its key.
C8_FailuresSkipOneTicket ==
    apc # "analyze" =>
        /\ i = Len(issues)
        /\ \A k \in 1..Len(issues) :
              IF \E h \in 1..Len(issues[k].histories) :
                    issues[k].histories[h].created = Malformed
              THEN /\ EntriesOf(issues[k].key) = {}
                   /\ issues[k].key \in skipped
              ELSE /\ Cardinality(EntriesOf(issues[k].key)) = 1
                   /\ issues[k].key \notin skipped
        /\ \A k \in 1..Len(results) : \E n \in 1..Len(issues) : issues[n].key = results[k].key

\* the second of three tickets fails; the first and the third are in the
\* results
C8_Witness ==
    /\ apc # "analyze"
    /\ Len(issues) = 3
    /\ skipped = {2}
    /\ Len(results) = 2
    /\ results[1].key = 1
    /\ results[2].key = 3

\* tickets that had any time in a status: their accumulated time in it is
\* greater than zero
TicketsWithTimeIn(status) ==
    {k \in 1..Len(results) :
        /\ status \in DOMAIN results[k].durations
        /\ results[k].durations[status] > 0}

\* C9: for every status, the average reported equals the status's global
\* total divided by the number of tickets that had any time in that status
\* (checked for the statuses some ticket had time in).
C9_AverageOverTicketsWithTime ==
    apc = "printed" =>
        \A s \in DOMAIN overall :
            LET n == Cardinality(TicketsWithTimeIn(s))
            IN  n > 0 =>
                  /\ overall[s].total_hours = aggregated[s].total_hours
                  /\ overall[s].avg_hours.num * n
                       = overall[s].total_hours * overall[s].avg_hours.den

\* C10: the grand total equals the sum of the total hours of the buckets,
\* and both equal the sum of every value of every ticket's DurationMap,
\* statuses outside EXPECTED_STATUSES included.
C10_GrandTotalIsSumOfBuckets ==
    GroupingLoopEnded =>
        /\ grand_total_hours = SumOfBucketHours(category_stats, DOMAIN category_stats)
        /\ grand_total_hours = SumOfTicketHours(results, Len(results))

\* tickets in two buckets, one of them with time in a status that is not
\* in EXPECTED_STATUSES
C10_Witness ==
    /\ apc = "printed"
    /\ Cardinality(DOMAIN category_stats) >= 2
    /\ \E k \in 1..Len(results) :
          /\ "None" \in DOMAIN results[k].durations
          /\ results[k].durations["None"] > 0
    /\ \E k \in 1..Len(results) : "Done" \notin DOMAIN results[k].durations
                                  /\ InProgress \in DOMAIN results[k].durations
    /\ grand_total_hours > 0

----------------------------------------------------------------------------
(* Termination of the fetch *)

\* tickets the remote can still serve at offsets from start_at on
StillServable == IF matching > start_at THEN matching - start_at ELSE 0

\* Where the model stops asking for pages, the total was already out of
\* reach: the pages to come cannot bring len(all_issues) up to total_issues,
\* so line 86 never breaks and only an exception would end the loop.
TotalOutOfReachAtBound ==
    (fpc = "search" /\ searches = MaxSearches) =>
        /\ ~consistent
        /\ Len(all_issues) + StillServable < total_issues

====
